---- MODULE Spec2Model ----
(***************************************************************************)
(* Item2Vec / SGNS training (pytorch-sgns).                                *)
(*                                                                         *)
(* Three state machines share this module:                                   *)
(*   Spec      the epoch loops of train_i2v.py and train_ai2v.py: the      *)
(*             fixed-epoch loop `train` and the early-stopping loop        *)
(*             `train_early_stop`, one action per statement group;         *)
(*   SpecSGNS  the embedding tables of Item2Vec and the forward pass of    *)
(*             SGNS (negative sampling, loss) with the optimizer step of   *)
(*             run_epoch, over fixed-point integers;                       *)
(*   SpecEpoch the body of one epoch of train_early_stop, one action per   *)
(*             statement of run_epoch and of calc_loss_on_set, over the    *)
(*             same tables.                                                *)
(***************************************************************************)
EXTENDS Integers, Sequences, FiniteSets, TLC

VARIABLES
    \* ---- the epoch loops (train_i2v.py, train_ai2v.py) ----
    file,            \* "i2v" (train_i2v.py) or "ai2v" (train_ai2v.py)
    mode,            \* "train" | "train_early_stop" | "idle"
    max_epoch,       \* cnfg['max_epoch']
    patience,        \* cnfg['patience']
    conv_thresh,     \* cnfg['conv_thresh'] (train_ai2v.py only)
    pc,              \* position in the loop
    epoch,           \* the loop variable (0 before the first iteration)
    valid_loss,      \* the last value returned by calc_loss_on_set
    valid_losses,    \* the list valid_losses
    best_valid_loss, \* train_ai2v.py only
    patience_count,
    best_epoch,
    saves,           \* the epochs in which save_model was called, in order
    n_run_epoch,     \* calls of run_epoch so far
    opt_steps,       \* optimizer steps so far
    n_valid,         \* calls of calc_loss_on_set so far
    broke,           \* the loop was left by `break`
    returned,        \* the value returned by train_early_stop (0: none yet)
    \* ---- the model (i2v_model.py) ----
    vocab_size, padding_idx, n_negs, weights,
    ivectors, ovectors,      \* the two embedding tables, row index -> weight
    seed,                    \* the draw of the random initialisation
    iitem, oitems,           \* the batch the data loader yields
    nitems,                  \* the negatives of the last forward pass
    loss,                    \* the value of the last forward pass
    phase,                   \* "ready" | "loss" (a loss awaits its backward)
    steps,                   \* optimizer steps applied to the tables
    \* ---- one epoch (run_epoch, calc_loss_on_set) ----
    training,                \* nn.Module.training of sgns
    batch_no,                \* batches the current loop has consumed
    train_losses,            \* the list train_losses of run_epoch
    train_loss,              \* the value run_epoch returned last
    igrad, ograd,            \* .grad of the two tables
    ops,                     \* the calls run_epoch has made, in order
    set_losses,              \* the list valid_losses of calc_loss_on_set
    set_loss                 \* the value calc_loss_on_set returned last

loopVars == <<file, mode, max_epoch, patience, conv_thresh, pc, epoch,
              valid_loss, valid_losses, best_valid_loss, patience_count,
              best_epoch, saves, n_run_epoch, opt_steps, n_valid, broke,
              returned>>

epochVars == <<training, batch_no, train_losses, train_loss, igrad, ograd,
               ops, set_losses, set_loss>>

modelVars == <<vocab_size, padding_idx, n_negs, weights, ivectors, ovectors,
               seed, iitem, oitems, nitems, loss, phase, steps, epochVars>>

vars == <<loopVars, modelVars>>

(***************************************************************************)
(* Bounds.                                                                 *)
(***************************************************************************)
MaxEpochs == 6          \* cnfg['max_epoch'] ranges over 0..MaxEpochs
MaxPatience == 3        \* cnfg['patience'] ranges over -1..MaxPatience
BatchesPerEpoch == 2    \* batches the training data loader yields per epoch

\* np.inf; every finite loss of the model is below it.
Inf == 999

\* The values calc_loss_on_set can return: the mean of the batch losses of
\* the validation set, a float that may be infinite.
FiniteLosses == {8, 9, 10, 11}
LossValues == FiniteLosses \cup {Inf}

\* cnfg['conv_thresh'], in the unit of the losses.
Thresholds == {0, 1}

Abs(x) == IF x < 0 THEN -x ELSE x

(***************************************************************************)
(* The improvement tests.                                                  *)
(***************************************************************************)
\* A loop that takes an equal loss for an improvement.
StrictlyLower_OrEqual(cur, prev) == cur <= prev

\* valid_loss < valid_losses[-1] on floats: inf < inf is False.
StrictlyLower(cur, prev) == cur < prev

\* abs(valid_loss - valid_losses[-1]) > conv_thresh on floats:
\* inf - inf is nan and nan > x is False; |finite - inf| is inf.
DiffExceeds(cur, prev, thresh) ==
    IF cur = Inf /\ prev = Inf THEN FALSE
    ELSE IF cur = Inf \/ prev = Inf THEN TRUE
    ELSE Abs(cur - prev) > thresh

Last(s) == s[Len(s)]

\* A loop that starts from a loss of zero.
InitialValidLosses_Zero == <<0>>

\* valid_losses = [np.inf]
InitialValidLosses == <<Inf>>

\* A sentinel that is also the number of the last epoch.
Sentinel_LastEpoch(me) == me

\* best_epoch = cnfg['max_epoch'] + 1
Sentinel(me) == me + 1

\* A loop that starts the same epoch again.
NextEpoch_Same(e) == e

\* for epoch in range(1, cnfg['max_epoch'] + 1): the next value of epoch
NextEpoch(e) == e + 1

(***************************************************************************)
(* Initial state of the loops: the assignments before the `for`.           *)
(***************************************************************************)
\* nn.Module.__init__ sets training = True; no epoch has begun.
EpochIdle ==
    /\ training = TRUE
    /\ batch_no = 0
    /\ train_losses = <<>> /\ train_loss = 0
    /\ igrad = <<>> /\ ograd = <<>>
    /\ ops = <<>>
    /\ set_losses = <<>> /\ set_loss = 0

ModelIdle ==
    /\ EpochIdle
    /\ vocab_size = 0 /\ padding_idx = 0 /\ n_negs = 0 /\ weights = <<>>
    /\ ivectors = <<>> /\ ovectors = <<>> /\ seed = 0
    /\ iitem = <<>> /\ oitems = <<>> /\ nitems = <<>> /\ loss = 0
    /\ phase = "idle" /\ steps = 0

InitLoop ==
    /\ file \in {"i2v", "ai2v"}
    /\ mode \in {"train", "train_early_stop"}
    /\ max_epoch \in 0..MaxEpochs
    /\ patience \in IF mode = "train" THEN {0} ELSE (-1)..MaxPatience
    /\ conv_thresh \in IF mode = "train_early_stop" /\ file = "ai2v"
                       THEN Thresholds ELSE {0}
    /\ pc = "for"
    /\ epoch = 0
    /\ valid_loss = Inf
    /\ valid_losses = InitialValidLosses
    /\ best_valid_loss = Inf
    /\ patience_count = 0
    /\ best_epoch = Sentinel(max_epoch)
    /\ saves = <<>>
    /\ n_run_epoch = 0
    /\ opt_steps = 0
    /\ n_valid = 0
    /\ broke = FALSE
    /\ returned = 0

Init == InitLoop /\ ModelIdle

(***************************************************************************)
(* train: the fixed-epoch loop.                                            *)
(***************************************************************************)
\* A loop body that also saves the model.
TrainRunEpoch_Saving ==
    /\ mode = "train" /\ pc = "for" /\ epoch < max_epoch
    /\ epoch' = epoch + 1
    /\ n_run_epoch' = n_run_epoch + 1
    /\ opt_steps' = opt_steps + BatchesPerEpoch
    /\ saves' = Append(saves, epoch + 1)
    /\ UNCHANGED <<file, mode, max_epoch, patience, conv_thresh, pc,
                   valid_loss, valid_losses, best_valid_loss, patience_count,
                   best_epoch, n_valid, broke, returned>>
    /\ UNCHANGED modelVars

\* for epoch in range(1, max_epoch + 1): run_epoch(...)
TrainRunEpoch ==
    /\ mode = "train" /\ pc = "for" /\ epoch < max_epoch
    /\ epoch' = epoch + 1
    /\ n_run_epoch' = n_run_epoch + 1
    /\ opt_steps' = opt_steps + BatchesPerEpoch
    /\ UNCHANGED <<file, mode, max_epoch, patience, conv_thresh, pc,
                   valid_loss, valid_losses, best_valid_loss, patience_count,
                   best_epoch, saves, n_valid, broke, returned>>
    /\ UNCHANGED modelVars

\* save_model(cnfg, model, sgns) after the loop
TrainSaveModel ==
    /\ mode = "train" /\ pc = "for" /\ epoch = max_epoch
    /\ saves' = Append(saves, epoch)
    /\ pc' = "done"
    /\ UNCHANGED <<file, mode, max_epoch, patience, conv_thresh, epoch,
                   valid_loss, valid_losses, best_valid_loss, patience_count,
                   best_epoch, n_run_epoch, opt_steps, n_valid, broke,
                   returned>>
    /\ UNCHANGED modelVars

(***************************************************************************)
(* train_early_stop.                                                       *)
(***************************************************************************)
\* for epoch in range(1, max_epoch + 1): train_loss, sgns = run_epoch(...)
ESRunEpoch ==
    /\ mode = "train_early_stop" /\ pc = "for" /\ epoch < max_epoch
    /\ epoch' = NextEpoch(epoch)
    /\ n_run_epoch' = n_run_epoch + 1
    /\ opt_steps' = opt_steps + BatchesPerEpoch
    /\ pc' = "valid"
    /\ UNCHANGED <<file, mode, max_epoch, patience, conv_thresh,
                   valid_loss, valid_losses, best_valid_loss, patience_count,
                   best_epoch, saves, n_valid, broke, returned>>
    /\ UNCHANGED modelVars

\* valid_loss = calc_loss_on_set(...)
ESCalcLossOnSet ==
    /\ mode = "train_early_stop" /\ pc = "valid"
    /\ \E v \in LossValues : valid_loss' = v
    /\ n_valid' = n_valid + 1
    /\ pc' = "test"
    /\ UNCHANGED <<file, mode, max_epoch, patience, conv_thresh, epoch,
                   valid_losses, best_valid_loss, patience_count,
                   best_epoch, saves, n_run_epoch, opt_steps, broke,
                   returned>>
    /\ UNCHANGED modelVars

\* train_i2v.py: if valid_loss < valid_losses[-1]
ImprovedI2V == StrictlyLower(valid_loss, Last(valid_losses))

\* train_ai2v.py: if diff_loss > cnfg['conv_thresh']
ImprovedAI2V == DiffExceeds(valid_loss, Last(valid_losses), conv_thresh)

\* train_ai2v.py: if valid_loss < best_valid_loss
IsBestAI2V == valid_loss < best_valid_loss

\* A stop test that fires at or beyond the limit.
PatienceExhausted_AtLeast(count) == count >= patience

\* patience_count == cnfg['patience'], tested on the incremented counter
PatienceExhausted(count) == count = patience

\* train_i2v.py, the if/else of the loop body and valid_losses.append
ESTestI2V ==
    /\ mode = "train_early_stop" /\ file = "i2v" /\ pc = "test"
    /\ IF ImprovedI2V
       THEN /\ patience_count' = 0
            /\ best_epoch' = epoch
            /\ saves' = Append(saves, epoch)
            /\ valid_losses' = Append(valid_losses, valid_loss)
            /\ pc' = "for"
            /\ broke' = FALSE
       ELSE /\ patience_count' = patience_count + 1
            /\ UNCHANGED <<best_epoch, saves>>
            /\ IF PatienceExhausted(patience_count + 1)
               THEN /\ broke' = TRUE
                    /\ pc' = "exit"
                    /\ UNCHANGED valid_losses
               ELSE /\ broke' = FALSE
                    /\ pc' = "for"
                    /\ valid_losses' = Append(valid_losses, valid_loss)
    /\ UNCHANGED <<file, mode, max_epoch, patience, conv_thresh, epoch,
                   valid_loss, best_valid_loss, n_run_epoch, opt_steps,
                   n_valid, returned>>
    /\ UNCHANGED modelVars

\* train_ai2v.py, the if/else of the loop body and valid_losses.append
ESTestAI2V ==
    /\ mode = "train_early_stop" /\ file = "ai2v" /\ pc = "test"
    /\ IF ImprovedAI2V
       THEN /\ patience_count' = 0
            /\ IF IsBestAI2V
               THEN /\ best_valid_loss' = valid_loss
                    /\ best_epoch' = epoch
                    /\ saves' = Append(saves, epoch)
               ELSE UNCHANGED <<best_valid_loss, best_epoch, saves>>
            /\ valid_losses' = Append(valid_losses, valid_loss)
            /\ pc' = "for"
            /\ broke' = FALSE
       ELSE /\ patience_count' = patience_count + 1
            /\ UNCHANGED <<best_valid_loss, best_epoch, saves>>
            /\ IF PatienceExhausted(patience_count + 1)
               THEN /\ broke' = TRUE
                    /\ pc' = "exit"
                    /\ UNCHANGED valid_losses
               ELSE /\ broke' = FALSE
                    /\ pc' = "for"
                    /\ valid_losses' = Append(valid_losses, valid_loss)
    /\ UNCHANGED <<file, mode, max_epoch, patience, conv_thresh, epoch,
                   valid_loss, n_run_epoch, opt_steps, n_valid, returned>>
    /\ UNCHANGED modelVars

\* A loop that returns the number of the last epoch run.
ReturnValue_LastEpoch == epoch

\* return best_epoch
ReturnValue == best_epoch

\* writer.flush(); writer.close(); return best_epoch
ESReturn ==
    /\ mode = "train_early_stop"
    /\ \/ pc = "exit"
       \/ pc = "for" /\ epoch = max_epoch
    /\ returned' = ReturnValue
    /\ pc' = "done"
    /\ UNCHANGED <<file, mode, max_epoch, patience, conv_thresh, epoch,
                   valid_loss, valid_losses, best_valid_loss, patience_count,
                   best_epoch, saves, n_run_epoch, opt_steps, n_valid, broke>>
    /\ UNCHANGED modelVars

Next ==
    \/ TrainRunEpoch
    \/ TrainSaveModel
    \/ ESRunEpoch
    \/ ESCalcLossOnSet
    \/ ESTestI2V
    \/ ESTestAI2V
    \/ ESReturn

Spec == Init /\ [][Next]_vars

\* The loops run in one thread that keeps executing statements.
SpecFair == Spec /\ WF_vars(Next)

(***************************************************************************)
(* History read off the state of the loops.                                *)
(***************************************************************************)
EarlyStop == mode = "train_early_stop"

\* The validation losses computed so far, epoch 1 first: the list without
\* its initial inf, and the current one until it is appended (after `break`
\* it never is).
LossesSeen ==
    IF pc = "test" \/ broke
    THEN Tail(valid_losses) \o <<valid_loss>>
    ELSE Tail(valid_losses)

\* The epochs whose if/else has been executed.
Decided == IF pc = "test" THEN Len(LossesSeen) - 1 ELSE Len(LossesSeen)

AllFinite == \A k \in 1..Len(LossesSeen) : LossesSeen[k] # Inf

\* The loss of the epoch before k, inf before the first.
PrevLoss(k) == IF k = 1 THEN Inf ELSE LossesSeen[k - 1]

\* The lowest loss of the epochs 1..k (inf when k = 0).
RECURSIVE MinLoss(_)
MinLoss(k) ==
    IF k = 0 THEN Inf
    ELSE IF LossesSeen[k] < MinLoss(k - 1) THEN LossesSeen[k]
         ELSE MinLoss(k - 1)

\* Improvement of epoch k under the policy of each loop as the
\* specification words it: strict decrease against the previous epoch
\* (train_i2v.py), a change beyond the threshold that is also the best loss
\* so far (train_ai2v.py).
ImprovingEpoch(k) ==
    IF file = "i2v"
    THEN LossesSeen[k] < PrevLoss(k)
    ELSE /\ DiffExceeds(LossesSeen[k], PrevLoss(k), conv_thresh)
         /\ LossesSeen[k] < MinLoss(k - 1)

\* The number of consecutive non-improving epochs that end with epoch k.
RECURSIVE TrailingStagnant(_)
TrailingStagnant(k) ==
    IF k = 0 \/ ImprovingEpoch(k) THEN 0 ELSE 1 + TrailingStagnant(k - 1)

(***************************************************************************)
(* C1. Strict-decrease loop, validation losses [10, 9, 9, 9, 9],           *)
(* patience 3, max_epoch >= 5: training halts at epoch 5 (five epochs      *)
(* trained and validated, the loop left by break, no sixth loss ever       *)
(* computed) and the best epoch, the last checkpoint and the returned      *)
(* value are those of epoch 2.                                             *)
(***************************************************************************)
C1_Scenario ==
    /\ EarlyStop /\ file = "i2v" /\ patience = 3 /\ max_epoch >= 5
    /\ Len(LossesSeen) >= 5
    /\ SubSeq(LossesSeen, 1, 5) = <<10, 9, 9, 9, 9>>

C1_HaltsAtEpoch5BestEpoch2 ==
    C1_Scenario =>
        /\ epoch = 5 /\ n_run_epoch = 5 /\ n_valid = 5
        /\ Len(LossesSeen) = 5
        /\ pc # "test" =>
              /\ broke
              /\ best_epoch = 2
              /\ saves = <<1, 2>>
              /\ pc = "done" => returned = 2

C1_Witness == C1_Scenario /\ pc = "done" /\ max_epoch > 5

(***************************************************************************)
(* C2. In train_early_stop, save_model is called (and the epoch recorded)  *)
(* only in an epoch whose validation loss is the lowest of all epochs run  *)
(* so far, and once the loop is left the recorded best epoch is an epoch   *)
(* with the minimum validation loss observed.                              *)
(***************************************************************************)
C2_SavedEpochHasBestLoss ==
    EarlyStop =>
        /\ \A i \in 1..Len(saves) :
              LossesSeen[saves[i]] = MinLoss(saves[i])
        /\ (pc \in {"exit", "done"} /\ AllFinite /\ saves # <<>>) =>
              LossesSeen[best_epoch] = MinLoss(Len(LossesSeen))

(***************************************************************************)
(* C3. In train_early_stop with patience >= 1, every non-improving epoch   *)
(* increments the patience counter by one (so the counter is the number    *)
(* of consecutive non-improving epochs), the loop is left in the epoch in  *)
(* which the counter reaches patience, and nothing runs after that epoch:  *)
(* no run_epoch, optimizer step, validation pass or save_model.            *)
(***************************************************************************)
C3_HaltsAfterPatienceStagnantEpochs ==
    (EarlyStop /\ patience >= 1) =>
        /\ patience_count = TrailingStagnant(Decided)
        /\ broke <=> (Decided >= 1 /\ TrailingStagnant(Decided) = patience)
        /\ broke =>
              /\ n_run_epoch = epoch /\ n_valid = epoch
              /\ opt_steps = epoch * BatchesPerEpoch
              /\ Len(LossesSeen) = epoch
              /\ \A i \in 1..Len(saves) : saves[i] <= epoch - patience

(***************************************************************************)
(* C4. The fixed-epoch loop runs run_epoch max_epoch times, for the        *)
(* epochs 1..max_epoch in order, and calls save_model exactly once, after  *)
(* the last epoch and never before.                                        *)
(***************************************************************************)
C4_FixedEpochsOneSave ==
    mode = "train" =>
        /\ n_run_epoch = epoch /\ epoch <= max_epoch
        /\ opt_steps = epoch * BatchesPerEpoch
        /\ pc # "done" => saves = <<>>
        /\ pc = "done" => (epoch = max_epoch /\ saves = <<max_epoch>>)

C4_Witness == mode = "train" /\ pc = "done" /\ max_epoch >= 2

(***************************************************************************)
(* C6. When train_early_stop ends by early stopping, with patience >= 1    *)
(* and finite validation losses, save_model has been called at least once. *)
(***************************************************************************)
C6_EarlyStopLeavesCheckpoint ==
    (EarlyStop /\ broke /\ patience >= 1 /\ AllFinite) =>
        /\ saves # <<>>
        /\ best_epoch = Last(saves)
        /\ best_epoch \in 1..epoch

C6_Witness ==
    EarlyStop /\ broke /\ pc = "done" /\ patience >= 1 /\ AllFinite

(***************************************************************************)
(* C11. The value train_early_stop returns is the epoch of the last call   *)
(* of save_model, whether the loop ends by break or by exhausting          *)
(* max_epoch; with finite validation losses and at least one epoch there   *)
(* is such a call.                                                         *)
(***************************************************************************)
C11_ReturnsEpochOfLastSave ==
    (EarlyStop /\ pc = "done") =>
        /\ saves # <<>> => returned = Last(saves)
        /\ (AllFinite /\ max_epoch >= 1) => saves # <<>>

C11_Witness ==
    /\ EarlyStop /\ pc = "done" /\ ~broke /\ AllFinite
    /\ epoch = max_epoch /\ max_epoch >= 3
    /\ Len(saves) >= 2 /\ returned = Last(saves) /\ returned < epoch

(***************************************************************************)
(* C12. In the loop of train_ai2v.py an epoch resets the patience counter  *)
(* to 0 only if its loss differs from the previous one by more than        *)
(* conv_thresh and is lower than every earlier loss; an epoch within       *)
(* conv_thresh of the previous one increments the counter and saves        *)
(* nothing.                                                                *)
(***************************************************************************)
C12_ResetOnlyOnBestBeyondThreshold ==
    [][(EarlyStop /\ file = "ai2v" /\ pc = "test") =>
         /\ patience_count' = 0 =>
               /\ DiffExceeds(valid_loss, PrevLoss(Decided + 1), conv_thresh)
               /\ valid_loss < MinLoss(Decided)
         /\ ~DiffExceeds(valid_loss, PrevLoss(Decided + 1), conv_thresh) =>
               /\ patience_count' = patience_count + 1
               /\ saves' = saves]_vars

(***************************************************************************)
(* C13. In the loop of train_i2v.py an epoch resets the patience counter   *)
(* to 0 only if its loss is strictly lower than the loss of every earlier  *)
(* epoch; a loss equal to the previous one increments the counter.         *)
(***************************************************************************)
C13_ResetOnlyOnBestSoFar ==
    [][(EarlyStop /\ file = "i2v" /\ pc = "test") =>
         /\ patience_count' = 0 => valid_loss < MinLoss(Decided)
         /\ valid_loss = PrevLoss(Decided + 1) =>
               patience_count' = patience_count + 1]_vars

(***************************************************************************)
(* C17. With patience >= 1 the patience counter stays in 0..patience, is   *)
(* the number of consecutive non-improving epochs since the last           *)
(* improving one, and reaches patience only when the loop breaks; with     *)
(* finite losses the loop never breaks before epoch patience + 1.          *)
(***************************************************************************)
C17_PatienceCounterCountsStagnation ==
    (EarlyStop /\ patience >= 1) =>
        /\ patience_count \in 0..patience
        /\ patience_count = TrailingStagnant(Decided)
        /\ patience_count = patience => broke
        /\ (broke /\ AllFinite) => epoch >= patience + 1

(***************************************************************************)
(* C18. train_early_stop returns max_epoch + 1 exactly when save_model     *)
(* was never called; otherwise the returned value is in 1..max_epoch and   *)
(* not beyond the number of epochs run.                                    *)
(***************************************************************************)
C18_SentinelIffNeverSaved ==
    (EarlyStop /\ pc = "done") =>
        /\ returned = max_epoch + 1 <=> saves = <<>>
        /\ saves # <<>> =>
              /\ returned \in 1..max_epoch
              /\ returned <= n_run_epoch

C18_Witness ==
    /\ EarlyStop /\ pc = "done" /\ saves = <<>>
    /\ max_epoch >= 2 /\ n_run_epoch >= 2 /\ returned = max_epoch + 1

(***************************************************************************)
(* C19. With patience <= 0 the loop never breaks: it runs all max_epoch    *)
(* epochs, and the patience counter is bounded by the number of epochs     *)
(* only.                                                                   *)
(***************************************************************************)
C19_NonPositivePatienceNeverStops ==
    (EarlyStop /\ patience <= 0) =>
        /\ ~broke /\ pc # "exit"
        /\ patience_count <= epoch
        /\ pc = "done" =>
              (epoch = max_epoch /\ n_run_epoch = max_epoch
                 /\ n_valid = max_epoch)

C19_Witness ==
    /\ EarlyStop /\ patience = 0 /\ pc = "done"
    /\ max_epoch >= 3 /\ patience_count = max_epoch

(***************************************************************************)
(* C20. Every run of train_early_stop ends, after at most max_epoch        *)
(* epochs, each one run_epoch followed by one calc_loss_on_set; the        *)
(* epochs are numbered 1, 2, ... in increasing order without repetition.   *)
(***************************************************************************)
C20_TerminatesWithinMaxEpoch ==
    /\ [][EarlyStop =>
            /\ epoch' \in {epoch, epoch + 1}
            /\ epoch' <= max_epoch
            /\ epoch' = epoch + 1 <=> n_run_epoch' = n_run_epoch + 1
            /\ n_run_epoch' = epoch'
            /\ n_valid' # n_valid =>
                  (n_valid' = n_valid + 1 /\ n_valid' = epoch)]_vars
    /\ EarlyStop =>
          <>(pc = "done" /\ n_run_epoch <= max_epoch /\ n_valid = n_run_epoch)

C20_Witness ==
    /\ EarlyStop /\ pc = "done" /\ ~broke
    /\ max_epoch >= 3 /\ n_run_epoch = max_epoch /\ n_valid = max_epoch

(***************************************************************************)
(* The model: Item2Vec and SGNS (i2v_model.py).                            *)
(*                                                                         *)
(* Weights are fixed-point integers in the unit of one learning-rate step  *)
(* and the embedding size is one, so a row is one integer and a dot        *)
(* product a product.  log(sigmoid(x)) is in units of 1/1200 and           *)
(* sigmoid(x) in percent.                                                  *)
(***************************************************************************)
MaxSteps == 2      \* optimizer steps of a run
MaxNegs == 2       \* n_negs ranges over 1..MaxNegs
StreamLen == 2     \* the random generator's draws of one call repeat with
                   \* this period
Grid == 2          \* floats of uniform_ are the multiples of 1/Grid

LoopIdle ==
    /\ file = "i2v" /\ mode = "idle" /\ max_epoch = 0 /\ patience = 0
    /\ conv_thresh = 0 /\ pc = "idle" /\ epoch = 0 /\ valid_loss = Inf
    /\ valid_losses = <<>> /\ best_valid_loss = Inf /\ patience_count = 0
    /\ best_epoch = 0 /\ saves = <<>> /\ n_run_epoch = 0 /\ opt_steps = 0
    /\ n_valid = 0 /\ broke = FALSE /\ returned = 0

Rows(V) == 0..(V - 1)

RECURSIVE SeqSum(_)
SeqSum(s) == IF s = <<>> THEN 0 ELSE Head(s) + SeqSum(Tail(s))

Sgn(x) == IF x > 0 THEN 1 ELSE IF x < 0 THEN -1 ELSE 0

\* FT(vocab_size - 1, E).uniform_(-0.5 / E, 0.5 / E): one of two draws per
\* row, chosen by the seed.
UniformInit(k) == IF k % 2 = 0 THEN 1 ELSE -1

\* nn.Parameter(t.cat([t.zeros(1, E), FT(vocab_size - 1, E).uniform_(..)])):
\* a zero row first, then vocab_size - 1 random rows, whatever padding_idx is.
InitialTable(V, pad, k) ==
    [r \in Rows(V) |-> IF r = 0 THEN 0 ELSE UniformInit(r + k)]

\* Item2Vec.__init__: the two tables.
InitialIVectors(V, pad, sd) == InitialTable(V, pad, sd)
InitialOVectors(V, pad, sd) == InitialTable(V, pad, sd + 1 + (V % 2))

\* SGNS.__init__: wf = np.power(weights, 0.75); wf = wf / wf.sum().
\* Frequencies are 0 or 1, which the power leaves as they are; the model
\* keeps the numerators of the probabilities.
SmoothedWeights(w) == [r \in DOMAIN w |-> w[r]]

\* t.multinomial(self.weights, ...): the indices of positive probability.
MultinomialOutcomes(wf) == {r \in DOMAIN wf : wf[r] > 0}

\* FT(..).uniform_(0, vocab_size - 1): floats k / Grid of [0, vocab_size - 1).
UniformFloats(V) == 0..((V - 1) * Grid - 1)

\* .long(): truncation of a non-negative float.
ToLong(k) == k \div Grid

\* uniform_(0, vocab_size - 1).long()
UniformOutcomes(V) == {ToLong(k) : k \in UniformFloats(V)}

\* The n draws of one call, from a stream of StreamLen independent draws.
Draws(stream, n) == [k \in 1..n |-> stream[((k - 1) % StreamLen) + 1]]

\* A reshape that takes the batch size for the row length.
View_Transposed(flat, B) ==
    [b \in 1..(Len(flat) \div B) |-> SubSeq(flat, (b - 1) * B + 1, b * B)]

\* .view(batch_size, -1): B rows of Len(flat) / B entries, row-major.
View(flat, B) ==
    LET w == Len(flat) \div B
    IN  [b \in 1..B |-> SubSeq(flat, (b - 1) * w + 1, b * w)]

\* FT(batch_size, context_size * n_negs): the shape is given, the entries
\* are drawn row-major.
Filled(stream, B, W) ==
    [b \in 1..B |-> [m \in 1..W |-> stream[(((b - 1) * W + m - 1) % StreamLen) + 1]]]

\* SGNS.forward, the negative items: multinomial draws reshaped, or uniform
\* floats truncated.
NegativeSamples(V, wts, n, B, C) ==
    IF wts # <<>>
    THEN {View(Draws(st, B * C * n), B) :
              st \in [1..StreamLen -> MultinomialOutcomes(wts)]}
    ELSE {Filled(st, B, C * n) :
              st \in [1..StreamLen -> UniformOutcomes(V)]}

\* x.sigmoid().log(), in units of 1/1200.
LogSig(x) ==
    CASE x >= 4  -> -24
      [] x = 3   -> -60
      [] x = 2   -> -156
      [] x = 1   -> -372
      [] x = 0   -> -828
      [] x = -1  -> -1572
      [] x = -2  -> -2556
      [] x = -3  -> -3660
      [] OTHER   -> -4824

\* x.sigmoid(), in percent: the derivative of log(sigmoid) at -x.
Sig(x) ==
    CASE x >= 4  -> 98
      [] x = 3   -> 95
      [] x = 2   -> 88
      [] x = 1   -> 73
      [] x = 0   -> 50
      [] x = -1  -> 27
      [] x = -2  -> 12
      [] x = -3  -> 5
      [] OTHER   -> 2

\* oloss: t.bmm(ovectors, ivectors).squeeze().sigmoid().log(), shape (B, C)
OLoss(iv, ov, it, oi) ==
    [b \in 1..Len(it) |->
        [c \in 1..Len(oi[b]) |-> LogSig(ov[oi[b][c]] * iv[it[b]])]]

\* An nloss that is neither reshaped nor summed over the negatives.
NLoss_NoView(iv, ov, it, ni, C, n) ==
    [b \in 1..Len(ni) |->
        [m \in 1..Len(ni[b]) |-> LogSig((-ov[ni[b][m]]) * iv[it[b]])]]

\* nloss: t.bmm(nvectors, ivectors)...log().view(-1, C, n_negs).sum(2)
NLoss(iv, ov, it, ni, C, n) ==
    [b \in 1..Len(ni) |->
        [c \in 1..C |->
            SeqSum([k \in 1..n |->
                LogSig((-ov[ni[b][(c - 1) * n + k]]) * iv[it[b]])])]]

\* loss = oloss + nloss; -loss.sum(1).mean()
SGNSLoss(iv, ov, it, oi, ni, n) ==
    LET B == Len(it)
        C == Len(oi[1])
        ol == OLoss(iv, ov, it, oi)
        nl == NLoss(iv, ov, it, ni, C, n)
        rows == [b \in 1..B |-> SeqSum([c \in 1..C |-> ol[b][c] + nl[b][c]])]
    IN  (-SeqSum(rows)) \div B

\* An embedding whose backward pass knows no padding index.
MaskPad_None(g, r, pad) == g

\* nn.Embedding(..., padding_idx=padding_idx): the backward pass of the
\* lookup leaves the gradient of the row padding_idx at zero.
MaskPad(g, r, pad) == IF r = pad THEN 0 ELSE g

\* loss.backward(): the gradient of the loss in row r of the input table,
\* times 100 * B.  Only the rows of the batch's targets are looked up.
GradI(iv, ov, it, oi, ni, n, r) ==
    SeqSum([b \in 1..Len(it) |->
        IF it[b] # r THEN 0
        ELSE SeqSum([c \in 1..Len(oi[b]) |->
                 (-Sig(-(ov[oi[b][c]] * iv[r]))) * ov[oi[b][c]]])
             + SeqSum([m \in 1..Len(ni[b]) |->
                 Sig(ov[ni[b][m]] * iv[r]) * ov[ni[b][m]]])])

\* loss.backward(): the gradient in row r of the output table, times
\* 100 * B: the context slots and the negative slots that hold r.
GradO(iv, ov, it, oi, ni, n, r) ==
    SeqSum([b \in 1..Len(it) |->
        SeqSum([c \in 1..Len(oi[b]) |->
            IF oi[b][c] # r THEN 0
            ELSE (-Sig(-(ov[r] * iv[it[b]]))) * iv[it[b]]])
        + SeqSum([m \in 1..Len(ni[b]) |->
            IF ni[b][m] # r THEN 0
            ELSE Sig(ov[r] * iv[it[b]]) * iv[it[b]]])])

\* optim.step() of Adagrad: each weight moves against the sign of its
\* gradient, and stays where it is when the gradient is zero.
AdagradStep(w, g) == w - Sgn(g)

(***************************************************************************)
(* The data: the batches a loader yields, padded with the padding index.   *)
(***************************************************************************)
Batch(t, c) == [titems |-> t, citems |-> c]

\* UserBatchIncrementDataset(path, pad_idx, window_size) behind a
\* DataLoader: targets and contexts over the items, short contexts filled
\* with pad.
Batches(V, pad) ==
    LET a == CHOOSE x \in Rows(V) : x # pad
        b == CHOOSE x \in Rows(V) : x # pad /\ x # a
    IN  { Batch(<<a>>, <<<<b>>>>),
          Batch(<<a>>, <<<<b, pad>>>>),
          Batch(<<b>>, <<<<a, b>>>>),
          Batch(<<a, b>>, <<<<b, pad>>, <<a, b>>>>) }

\* Item frequencies handed to SGNS: none (uniform mode), or one per item
\* with or without a count for the padding index.
WeightChoices(V, pad) ==
    { <<>>,
      [r \in Rows(V) |-> 1],
      [r \in Rows(V) |-> IF r = pad THEN 0 ELSE 1] }

\* The end-to-end scenario: five items, padding index 0, one negative per
\* slot, the batch target [1], context [[2, 3]].
EndToEnd ==
    /\ vocab_size = 5 /\ padding_idx = 0 /\ n_negs = 1
    /\ iitem = <<1>> /\ oitems = <<<<2, 3>>>>

InitModel ==
    /\ \/ /\ vocab_size = 3
          /\ padding_idx \in Rows(3)
          /\ n_negs \in 1..MaxNegs
          /\ \E bt \in Batches(vocab_size, padding_idx) :
                iitem = bt.titems /\ oitems = bt.citems
       \/ EndToEnd
    /\ \E w \in WeightChoices(vocab_size, padding_idx) :
          weights = IF w = <<>> THEN <<>> ELSE SmoothedWeights(w)
    /\ seed \in {0, 1}
    /\ ivectors = InitialIVectors(vocab_size, padding_idx, seed)
    /\ ovectors = InitialOVectors(vocab_size, padding_idx, seed)
    /\ nitems = <<>>
    /\ loss = 0
    /\ phase = "ready"
    /\ steps = 0
    /\ EpochIdle

InitSGNS == InitModel /\ LoopIdle

\* t.bmm(nvectors, ivectors) needs one row of negatives per target, and
\* .view(-1, context_size, n_negs) with the assertion nloss.shape[0] ==
\* batch_size needs context_size * n_negs negatives per row; forward raises
\* otherwise.
ShapesAgree(ni, B, C, n) ==
    /\ Len(ni) = B
    /\ \A b \in 1..Len(ni) : Len(ni[b]) = C * n

\* assert oloss.shape[0] == batch_size, assert nloss.shape[0] == batch_size
AssertLeadingDim(x, B) == Len(x) = B

\* run_epoch: loss = sgns(batch_titems, batch_citems)
Forward ==
    /\ phase = "ready" /\ steps < MaxSteps
    /\ \E ni \in NegativeSamples(vocab_size, weights, n_negs,
                                 Len(iitem), Len(oitems[1])) :
          /\ nitems' = ni
          /\ IF /\ ShapesAgree(ni, Len(iitem), Len(oitems[1]), n_negs)
                /\ AssertLeadingDim(OLoss(ivectors, ovectors, iitem, oitems),
                                    Len(iitem))
                /\ AssertLeadingDim(NLoss(ivectors, ovectors, iitem, ni,
                                          Len(oitems[1]), n_negs), Len(iitem))
             THEN /\ loss' = SGNSLoss(ivectors, ovectors, iitem, oitems,
                                      ni, n_negs)
                  /\ phase' = "loss"
             ELSE /\ loss' = loss
                  /\ phase' = "raised"
    /\ UNCHANGED <<vocab_size, padding_idx, n_negs, weights, ivectors,
                   ovectors, seed, iitem, oitems, steps>>
    /\ UNCHANGED epochVars
    /\ UNCHANGED loopVars

\* run_epoch: optim.zero_grad(); loss.backward(); optim.step()
BackwardStep ==
    /\ phase = "loss"
    /\ ivectors' = [r \in Rows(vocab_size) |->
          AdagradStep(ivectors[r],
              MaskPad(GradI(ivectors, ovectors, iitem, oitems, nitems,
                            n_negs, r), r, padding_idx))]
    /\ ovectors' = [r \in Rows(vocab_size) |->
          AdagradStep(ovectors[r],
              MaskPad(GradO(ivectors, ovectors, iitem, oitems, nitems,
                            n_negs, r), r, padding_idx))]
    /\ steps' = steps + 1
    /\ phase' = "ready"
    /\ UNCHANGED <<vocab_size, padding_idx, n_negs, weights, seed, iitem,
                   oitems, nitems, loss>>
    /\ UNCHANGED epochVars
    /\ UNCHANGED loopVars

NextSGNS ==
    \/ Forward
    \/ BackwardStep

SpecSGNS == InitSGNS /\ [][NextSGNS]_vars

(***************************************************************************)
(* One epoch of train_early_stop, statement by statement: run_epoch over   *)
(* the batches of the training loader, then calc_loss_on_set over those of *)
(* the validation loader.                                                  *)
(***************************************************************************)
EpochsRun == 1     \* epochs of a run

\* The last batch loss, as the progress bar shows it.
Mean_Last(s) == Last(s)

\* np.array(train_losses).mean(), np.array(valid_losses).mean()
Mean(s) == SeqSum(s) \div Len(s)

\* optim.zero_grad(): no gradient is left in .grad
ZeroGrad(V) == [r \in Rows(V) |-> 0]

\* loss.backward(): autograd adds the gradient d to what .grad holds
Accumulate(g, d) ==
    [r \in DOMAIN d |-> (IF r \in DOMAIN g THEN g[r] ELSE 0) + d[r]]

\* What no statement of the epoch body assigns.
epochFrame == <<file, mode, max_epoch, patience, conv_thresh, pc, valid_loss,
                valid_losses, best_valid_loss, patience_count, best_epoch,
                saves, broke, returned, vocab_size, padding_idx, n_negs,
                weights, seed, iitem, oitems, training>>

\* The three-item vocabulary, every padding index, mode and batch.
InitEpoch == InitModel /\ LoopIdle /\ vocab_size = 3

\* train_early_stop: for epoch in range(...): run_epoch(train_loader, ...),
\* up to train_losses = []
RunEpochEnter ==
    /\ phase = "ready" /\ epoch < EpochsRun
    /\ epoch' = epoch + 1
    /\ n_run_epoch' = n_run_epoch + 1
    /\ train_losses' = <<>>
    /\ ops' = <<>>
    /\ batch_no' = 0
    /\ phase' = "batch"
    /\ UNCHANGED <<ivectors, ovectors, igrad, ograd, nitems, loss, steps,
                   opt_steps, n_valid, train_loss, set_losses, set_loss>>
    /\ UNCHANGED epochFrame

\* run_epoch: for batch_titems, batch_citems in pbar: loss = sgns(...)
BatchLoss ==
    /\ phase = "batch" /\ batch_no < BatchesPerEpoch
    /\ batch_no' = batch_no + 1
    /\ \E ni \in NegativeSamples(vocab_size, weights, n_negs,
                                 Len(iitem), Len(oitems[1])) :
          /\ nitems' = ni
          /\ IF /\ ShapesAgree(ni, Len(iitem), Len(oitems[1]), n_negs)
                /\ AssertLeadingDim(OLoss(ivectors, ovectors, iitem, oitems),
                                    Len(iitem))
                /\ AssertLeadingDim(NLoss(ivectors, ovectors, iitem, ni,
                                          Len(oitems[1]), n_negs), Len(iitem))
             THEN /\ loss' = SGNSLoss(ivectors, ovectors, iitem, oitems,
                                      ni, n_negs)
                  /\ ops' = Append(ops, "loss")
                  /\ phase' = "loss"
             ELSE /\ loss' = loss
                  /\ ops' = ops
                  /\ phase' = "raised"
    /\ UNCHANGED <<ivectors, ovectors, igrad, ograd, steps, opt_steps, epoch,
                   n_run_epoch, n_valid, train_losses, train_loss,
                   set_losses, set_loss>>
    /\ UNCHANGED epochFrame

\* run_epoch: train_losses.append(loss.item())
BatchAppend ==
    /\ phase = "loss"
    /\ train_losses' = Append(train_losses, loss)
    /\ ops' = Append(ops, "append")
    /\ phase' = "appended"
    /\ UNCHANGED <<ivectors, ovectors, igrad, ograd, nitems, loss, steps,
                   opt_steps, epoch, n_run_epoch, n_valid, batch_no,
                   train_loss, set_losses, set_loss>>
    /\ UNCHANGED epochFrame

\* run_epoch: optim.zero_grad()
BatchZeroGrad ==
    /\ phase = "appended"
    /\ igrad' = ZeroGrad(vocab_size)
    /\ ograd' = ZeroGrad(vocab_size)
    /\ ops' = Append(ops, "zero_grad")
    /\ phase' = "zeroed"
    /\ UNCHANGED <<ivectors, ovectors, nitems, loss, steps, opt_steps, epoch,
                   n_run_epoch, n_valid, batch_no, train_losses, train_loss,
                   set_losses, set_loss>>
    /\ UNCHANGED epochFrame

\* run_epoch: loss.backward()
BatchBackward ==
    /\ phase = "zeroed"
    /\ igrad' = Accumulate(igrad, [r \in Rows(vocab_size) |->
          MaskPad(GradI(ivectors, ovectors, iitem, oitems, nitems, n_negs, r),
                  r, padding_idx)])
    /\ ograd' = Accumulate(ograd, [r \in Rows(vocab_size) |->
          MaskPad(GradO(ivectors, ovectors, iitem, oitems, nitems, n_negs, r),
                  r, padding_idx)])
    /\ ops' = Append(ops, "backward")
    /\ phase' = "grads"
    /\ UNCHANGED <<ivectors, ovectors, nitems, loss, steps, opt_steps, epoch,
                   n_run_epoch, n_valid, batch_no, train_losses, train_loss,
                   set_losses, set_loss>>
    /\ UNCHANGED epochFrame

\* run_epoch: optim.step()
BatchStep ==
    /\ phase = "grads"
    /\ ivectors' = [r \in Rows(vocab_size) |->
                       AdagradStep(ivectors[r], igrad[r])]
    /\ ovectors' = [r \in Rows(vocab_size) |->
                       AdagradStep(ovectors[r], ograd[r])]
    /\ steps' = steps + 1
    /\ opt_steps' = opt_steps + 1
    /\ ops' = Append(ops, "step")
    /\ phase' = "batch"
    /\ UNCHANGED <<igrad, ograd, nitems, loss, epoch, n_run_epoch, n_valid,
                   batch_no, train_losses, train_loss, set_losses, set_loss>>
    /\ UNCHANGED epochFrame

\* run_epoch: train_loss = np.array(train_losses).mean(); return
RunEpochReturn ==
    /\ phase = "batch" /\ batch_no = BatchesPerEpoch
    /\ train_loss' = Mean(train_losses)
    /\ phase' = "trained"
    /\ UNCHANGED <<ivectors, ovectors, igrad, ograd, nitems, loss, steps,
                   opt_steps, epoch, n_run_epoch, n_valid, batch_no,
                   train_losses, ops, set_losses, set_loss>>
    /\ UNCHANGED epochFrame

\* train_early_stop: valid_loss = calc_loss_on_set(...), up to
\* valid_losses = []
CalcLossEnter ==
    /\ phase = "trained"
    /\ n_valid' = n_valid + 1
    /\ set_losses' = <<>>
    /\ batch_no' = 0
    /\ phase' = "valid"
    /\ UNCHANGED <<ivectors, ovectors, igrad, ograd, nitems, loss, steps,
                   opt_steps, epoch, n_run_epoch, train_losses, train_loss,
                   ops, set_loss>>
    /\ UNCHANGED epochFrame

\* calc_loss_on_set: for batch_titems, batch_citems in pbar: loss = sgns(...)
ValidLoss ==
    /\ phase = "valid" /\ batch_no < BatchesPerEpoch
    /\ batch_no' = batch_no + 1
    /\ \E ni \in NegativeSamples(vocab_size, weights, n_negs,
                                 Len(iitem), Len(oitems[1])) :
          /\ nitems' = ni
          /\ IF /\ ShapesAgree(ni, Len(iitem), Len(oitems[1]), n_negs)
                /\ AssertLeadingDim(OLoss(ivectors, ovectors, iitem, oitems),
                                    Len(iitem))
                /\ AssertLeadingDim(NLoss(ivectors, ovectors, iitem, ni,
                                          Len(oitems[1]), n_negs), Len(iitem))
             THEN /\ loss' = SGNSLoss(ivectors, ovectors, iitem, oitems,
                                      ni, n_negs)
                  /\ phase' = "vloss"
             ELSE /\ loss' = loss
                  /\ phase' = "raised"
    /\ UNCHANGED <<ivectors, ovectors, igrad, ograd, steps, opt_steps, epoch,
                   n_run_epoch, n_valid, train_losses, train_loss, ops,
                   set_losses, set_loss>>
    /\ UNCHANGED epochFrame

\* calc_loss_on_set: valid_losses.append(loss.item())
ValidAppend ==
    /\ phase = "vloss"
    /\ set_losses' = Append(set_losses, loss)
    /\ phase' = "valid"
    /\ UNCHANGED <<ivectors, ovectors, igrad, ograd, nitems, loss, steps,
                   opt_steps, epoch, n_run_epoch, n_valid, batch_no,
                   train_losses, train_loss, ops, set_loss>>
    /\ UNCHANGED epochFrame

\* calc_loss_on_set: return np.array(valid_losses).mean()
CalcLossReturn ==
    /\ phase = "valid" /\ batch_no = BatchesPerEpoch
    /\ set_loss' = Mean(set_losses)
    /\ phase' = "ready"
    /\ UNCHANGED <<ivectors, ovectors, igrad, ograd, nitems, loss, steps,
                   opt_steps, epoch, n_run_epoch, n_valid, batch_no,
                   train_losses, train_loss, ops, set_losses>>
    /\ UNCHANGED epochFrame

NextEpochBody ==
    \/ RunEpochEnter
    \/ BatchLoss
    \/ BatchAppend
    \/ BatchZeroGrad
    \/ BatchBackward
    \/ BatchStep
    \/ RunEpochReturn
    \/ CalcLossEnter
    \/ ValidLoss
    \/ ValidAppend
    \/ CalcLossReturn

SpecEpoch == InitEpoch /\ [][NextEpochBody]_vars

(***************************************************************************)
(* Read off the state of the model.                                        *)
(***************************************************************************)
BatchSize == Len(iitem)
ContextSize == Len(oitems[1])
Uniform == weights = <<>>

\* The items among the negatives of the last forward pass.
NegativeItems == {nitems[b][m] : b \in 1..Len(nitems), m \in 1..Len(nitems[1])}

\* The batch without its last context column, and the negatives without
\* those of that column.
WithoutLastColumn(oi) == [b \in 1..Len(oi) |-> SubSeq(oi[b], 1, Len(oi[b]) - 1)]
WithoutLastSlot(ni, C, n) == [b \in 1..Len(ni) |-> SubSeq(ni[b], 1, (C - 1) * n)]

LastColumnIsPadding ==
    /\ ContextSize >= 2
    /\ \A b \in 1..BatchSize : oitems[b][ContextSize] = padding_idx

(***************************************************************************)
(* C5. For every padding index in [0, vocab_size), row padding_idx of the  *)
(* input and of the output table is zero after construction and after any  *)
(* number of training steps.                                               *)
(***************************************************************************)
C5_PaddingRowStaysZero ==
    phase # "idle" =>
        /\ ivectors[padding_idx] = 0
        /\ ovectors[padding_idx] = 0

(***************************************************************************)
(* C7. In uniform mode every negative index of a forward pass lies in      *)
(* 0..vocab_size - 1, and every index of that range, vocab_size - 1        *)
(* included, is a possible outcome of the draw.                            *)
(***************************************************************************)
C7_UniformDrawCoversVocabulary ==
    (phase = "loss" /\ Uniform) =>
        /\ NegativeItems \subseteq 0..(vocab_size - 1)
        /\ \A r \in 0..(vocab_size - 1) : r \in UniformOutcomes(vocab_size)

(***************************************************************************)
(* C8. The negatives of a forward pass form a matrix of exactly B rows of  *)
(* C * n_negs entries, in weighted and in uniform mode, and the pass never *)
(* raises for a mismatch.                                                  *)
(***************************************************************************)
C8_NegativesShape ==
    phase \in {"loss", "raised"} =>
        /\ phase = "loss"
        /\ Len(nitems) = BatchSize
        /\ \A b \in 1..Len(nitems) : Len(nitems[b]) = ContextSize * n_negs

C8_Witness ==
    /\ phase = "loss" /\ ~Uniform
    /\ BatchSize = 2 /\ ContextSize = 2 /\ n_negs = 2
    /\ Len(nitems) = 2 /\ Len(nitems[1]) = 4

(***************************************************************************)
(* C16. For every well-formed batch (B >= 1 targets, contexts of shape     *)
(* (B, C) with C >= 1, n_negs >= 1) the forward pass passes both           *)
(* assertions on the leading dimension, produces a loss instead of         *)
(* raising, and oloss and nloss both have shape (B, C).                    *)
(***************************************************************************)
C16_PerPositionLossHasShapeBC ==
    phase \in {"loss", "raised"} =>
        /\ phase = "loss"
        /\ LET ol == OLoss(ivectors, ovectors, iitem, oitems)
               nl == NLoss(ivectors, ovectors, iitem, nitems, ContextSize,
                           n_negs)
           IN  /\ Len(ol) = BatchSize
               /\ Len(nl) = BatchSize
               /\ \A b \in 1..BatchSize :
                     Len(ol[b]) = ContextSize /\ Len(nl[b]) = ContextSize

C16_Witness ==
    /\ phase = "loss" /\ Uniform
    /\ BatchSize = 2 /\ ContextSize = 2 /\ n_negs = 2
    /\ Len(NLoss(ivectors, ovectors, iitem, nitems, ContextSize, n_negs)) = 2

(***************************************************************************)
(* C14. In run_epoch every batch runs, in this order, loss, append,        *)
(* zero_grad, backward, step, each exactly once; the recorded loss is the  *)
(* loss on the tables as they are before the batch's update, the gradient  *)
(* the step applies is that of this batch's loss alone, and the value      *)
(* run_epoch returns is the arithmetic mean of the recorded losses.        *)
(***************************************************************************)
BatchOps == <<"loss", "append", "zero_grad", "backward", "step">>

InRunEpoch == phase \in {"batch", "loss", "appended", "zeroed", "grads"}

AfterRunEpoch == phase \in {"trained", "valid", "vloss"}
                    \/ (phase = "ready" /\ n_run_epoch >= 1)

C14_BatchOrderAndMean ==
    /\ \A k \in 1..Len(ops) : ops[k] = BatchOps[((k - 1) % 5) + 1]
    /\ phase = "batch" => Len(ops) = 5 * batch_no
    /\ InRunEpoch => opt_steps = (n_run_epoch - 1) * BatchesPerEpoch
                                   + Len(ops) \div 5
    /\ InRunEpoch => Len(train_losses) = (Len(ops) + 3) \div 5
    /\ phase \in {"appended", "zeroed", "grads"} =>
          Last(train_losses) = SGNSLoss(ivectors, ovectors, iitem, oitems,
                                        nitems, n_negs)
    /\ phase = "grads" =>
          \A r \in Rows(vocab_size) :
             /\ igrad[r] = MaskPad(GradI(ivectors, ovectors, iitem, oitems,
                                         nitems, n_negs, r), r, padding_idx)
             /\ ograd[r] = MaskPad(GradO(ivectors, ovectors, iitem, oitems,
                                         nitems, n_negs, r), r, padding_idx)
    /\ AfterRunEpoch =>
          /\ Len(ops) = 5 * BatchesPerEpoch
          /\ Len(train_losses) = BatchesPerEpoch
          /\ opt_steps = n_run_epoch * BatchesPerEpoch
          /\ train_loss * Len(train_losses) = SeqSum(train_losses)

C14_Witness ==
    /\ phase = "trained"
    /\ Len(train_losses) >= 2
    /\ train_losses[1] # train_losses[2]
    /\ train_loss # Last(train_losses)
    /\ \E r \in Rows(vocab_size) : ivectors[r] # InitialIVectors(vocab_size,
                                                    padding_idx, seed)[r]

(***************************************************************************)
(* C15. calc_loss_on_set runs once after every run_epoch, calls no         *)
(* zero_grad, backward or optimizer step and leaves both tables unchanged; *)
(* the tables change only in the optimizer step that follows a backward    *)
(* pass in run_epoch; and the validation pass runs with the model in       *)
(* evaluation mode.                                                        *)
(***************************************************************************)
InValidation == phase \in {"valid", "vloss"}

C15_OncePerEpoch ==
    /\ n_valid \in {n_run_epoch - 1, n_run_epoch}
    /\ (InValidation \/ phase = "ready") => n_valid = n_run_epoch
    /\ InRunEpoch \/ phase = "trained" => n_valid = n_run_epoch - 1

C15_ValidationFrame ==
    InValidation => UNCHANGED <<ivectors, ovectors, igrad, ograd, ops, steps,
                                opt_steps>>

C15_TablesChangeOnlyInStep ==
    (ivectors' # ivectors \/ ovectors' # ovectors) =>
        /\ phase = "grads" /\ Last(ops) = "backward"
        /\ ops' = Append(ops, "step")

C15_ValidationInEvalMode ==
    /\ [](phase # "idle" => C15_OncePerEpoch)
    /\ [][C15_ValidationFrame /\ C15_TablesChangeOnlyInStep]_vars
    /\ [](InValidation => ~training)

(***************************************************************************)
(* C9. Padding invariance: the loss of a batch whose last context column   *)
(* holds only the padding index equals the loss of the batch without that  *)
(* column (with the same negatives for the other slots).                   *)
(***************************************************************************)
C9_PaddingInvariance ==
    (phase = "loss" /\ LastColumnIsPadding) =>
        loss = SGNSLoss(ivectors, ovectors, iitem,
                        WithoutLastColumn(oitems),
                        WithoutLastSlot(nitems, ContextSize, n_negs),
                        n_negs)

(***************************************************************************)
(* C10. End-to-end scenario (five items, padding index 0, one negative,    *)
(* target [1], context [[2, 3]]).                                          *)
(*                                                                         *)
(* As claimed: every training step changes rows 1, 2 and 3 of both tables  *)
(* and leaves rows 0 and 4 of both tables unchanged.                       *)
(***************************************************************************)
TrainingStep == phase = "loss" /\ phase' = "ready"

C10_StepChangesRows123OfBothTables ==
    [][(EndToEnd /\ TrainingStep) =>
         /\ \A r \in {1, 2, 3} :
               ivectors'[r] # ivectors[r] /\ ovectors'[r] # ovectors[r]
         /\ \A r \in {0, 4} :
               ivectors'[r] = ivectors[r] /\ ovectors'[r] = ovectors[r]]_vars

(***************************************************************************)
(* C10 as amended: a training step of the scenario changes no row of the   *)
(* input table but that of the target, item 1; in the output table it      *)
(* changes only rows of the context items 2 and 3 and of the drawn         *)
(* negatives (row 4 when item 4 is drawn), never row 0; it does change the *)
(* output row of each context item that is not also drawn as a negative,   *)
(* as long as the input row of item 1 is not zero.                         *)
(***************************************************************************)
C10_StepFrame ==
    [][(EndToEnd /\ TrainingStep) =>
         /\ \A r \in {0, 2, 3, 4} : ivectors'[r] = ivectors[r]
         /\ ovectors'[0] = ovectors[0]
         /\ \A r \in Rows(vocab_size) :
               ovectors'[r] # ovectors[r] => r \in {2, 3} \cup NegativeItems
         /\ \A r \in {2, 3} :
               (ivectors[1] # 0 /\ r \notin NegativeItems)
                   => ovectors'[r] # ovectors[r]]_vars

C10_Witness ==
    /\ EndToEnd /\ phase = "ready" /\ steps = 2
    /\ 0 \in NegativeItems
    /\ ivectors[1] # InitialIVectors(vocab_size, padding_idx, seed)[1]
    /\ ovectors[2] # InitialOVectors(vocab_size, padding_idx, seed)[2]
    /\ ovectors[0] = 0 /\ ivectors[0] = 0
    /\ \A r \in {2, 3, 4} :
          ivectors[r] = InitialIVectors(vocab_size, padding_idx, seed)[r]

====
